---- MODULE Spec2Model ----
(***************************************************************************)
(* SEO Copilot: the SERP client (services/dataforseo.py), the SERP         *)
(* normalizer (services/parser.py), the suggestion engine                  *)
(* (services/title_rewrite.py) and the gateways that run them              *)
(* (mcp_server.py, mcp_stdio_server.py, main.py).                          *)
(*                                                                         *)
(* Python values are tagged records: [t |-> "dict", v |-> f] for a dict    *)
(* with the string-keyed function f, [t |-> "list", v |-> s] for a list,   *)
(* [t |-> "None"], [t |-> "int", v |-> n], [t |-> "str", v |-> words],     *)
(* and a raised exception is the value [t |-> "exc", cls, msg, ...] that   *)
(* every later step of the same try block passes on unchanged.             *)
(***************************************************************************)
EXTENDS Integers, Sequences, FiniteSets, TLC

VARIABLES
    \* --- environment (config.py, os.environ)
    DATAFORSEO_LOGIN,
    DATAFORSEO_PASSWORD,
    ANTHROPIC_API_KEY,
    \* --- one request at a gateway
    transport,      \* "http_tool" | "stdio" | "http_analyze" | "http_get_analyze"
                    \* | "http_resource" | "unit"
    tool_name,      \* the tool (or the resource uri) the request names
    arguments,      \* the argument dict (the POST /analyze body for "http_analyze")
    pc,             \* "received" | "serp_wait" | "llm_wait" | "done" | "unit"
    titles,         \* the handler's local `titles`
    outcome,        \* what the gateway answered
    \* --- SERP client and fixture
    fetch_calls,    \* invocations of fetch_live_serp
    fetch_args,     \* the arguments of the last invocation of fetch_live_serp
    serp_posts,     \* outbound HTTP requests to the SERP provider
    serp_response,  \* the SERP provider's answer once it arrived
    fetch_result,   \* what fetch_live_serp returned or raised
    fixture_reads,  \* reads of data/payload.json
    \* --- suggestion engine
    sb_pc,          \* "idle" | "posted" | "returned" | "raised"
    sb_args,        \* the arguments suggest_better_titles was called with
    caller_titles,  \* the caller's competitor_titles list after the call started
    suggest_calls,  \* invocations of suggest_better_titles
    prompt,         \* the prompt once constructed
    llm_posts,      \* outbound HTTP requests to the LLM provider
    llm_response,   \* what the LLM endpoint answers to this request's call
    sb_result,      \* what suggest_better_titles returned or raised
    \* --- parser unit
    px_pc,          \* "input" | "done" | "off"
    px_input,       \* the dict handed to extract_serp_titles
    px_titles,      \* what extract_serp_titles returned or raised
    px_records,     \* what extract_organic_results returned or raised
    \* --- report unit
    dm_url,         \* the url of an organic record, as its sequence of tokens
    dm_result       \* the report's domain lines for it, or what was raised

envVars == <<DATAFORSEO_LOGIN, DATAFORSEO_PASSWORD, ANTHROPIC_API_KEY>>
reqVars == <<transport, tool_name, arguments>>
gwVars == <<pc, titles, outcome>>
serpVars == <<fetch_calls, fetch_args, serp_posts, serp_response, fetch_result, fixture_reads>>
engVars == <<sb_pc, sb_args, caller_titles, suggest_calls, prompt, llm_posts, sb_result>>
reportVars == <<dm_url, dm_result>>
parserVars == <<px_pc, px_input, px_titles, px_records, reportVars>>
vars == <<envVars, reqVars, gwVars, serpVars, engVars, llm_response, parserVars>>

(***************************************************************************)
(* Bounds of the model.                                                    *)
(***************************************************************************)
MaxItems == 3
MaxTextLen == 5
MaxSugg == 6
MaxTitles == 11
MaxUrlLen == 5

(***************************************************************************)
(* Python values.                                                          *)
(***************************************************************************)
Obj(f) == [t |-> "dict", v |-> f]
Arr(s) == [t |-> "list", v |-> s]
NoneV == [t |-> "None"]
Pending == [t |-> "pending"]
EmptyDict == [t |-> "dict", v |-> [k \in {} |-> NoneV]]

Exc(cls, msg) ==
    [t |-> "exc", cls |-> cls, msg |-> msg, status |-> 0, text |-> "", cause |-> ""]

IsExc(x) == x.t = "exc"
NoExc == [t |-> "ok"]
Missing == [t |-> "missing"]
StrV(words) == [t |-> "str", v |-> words]
BoolV(b) == [t |-> "bool", v |-> b]

\* Python truthiness: `not x`.
Falsy(x) ==
    \/ x.t = "None"
    \/ x.t = "str" /\ x.v = <<>>
    \/ x.t = "list" /\ x.v = <<>>
    \/ x.t = "bool" /\ ~x.v
    \/ x.t = "int" /\ x.v = 0

\* The dict with the given (key, value) pairs, leaving out the Missing ones.
DictOf(pairs) ==
    LET present == {p \in pairs : p[2].t # "missing"}
    IN  Obj([k \in {p[1] : p \in present} |-> (CHOOSE p \in present : p[1] = k)[2]])

\* Python d.get(k, default) on a dict.
DictGet(d, k, default) ==
    IF IsExc(d) THEN d
    ELSE IF d.t = "dict" THEN (IF k \in DOMAIN d.v THEN d.v[k] ELSE default)
    ELSE Exc("AttributeError", "object has no attribute 'get'")

\* Python `k in x`: a key of a dict, an element of a list, a substring of a str.
Contains(x, k) ==
    IF IsExc(x) THEN x
    ELSE IF x.t = "dict" THEN BoolV(k \in DOMAIN x.v)
    ELSE IF x.t \in {"list", "str"} THEN BoolV(\E i \in 1..Len(x.v) : x.v[i] = k)
    ELSE Exc("TypeError", "argument is not iterable")

\* Exception classes under ValueError and under RuntimeError.
IsValueError(e) == e.cls \in {"ValueError", "ValidationError", "JSONDecodeError"}
IsRuntimeError(e) == e.cls \in {"RuntimeError"}

\* Python x[k] for a string key k.
GetItem(x, k) ==
    IF IsExc(x) THEN x
    ELSE IF x.t = "dict"
         THEN IF k \in DOMAIN x.v THEN x.v[k] ELSE Exc("KeyError", k)
    ELSE IF x.t = "None"
         THEN Exc("TypeError", "'NoneType' object is not subscriptable")
    ELSE Exc("TypeError", "indices must be integers")

\* Python x[0].
GetFirst(x) ==
    IF IsExc(x) THEN x
    ELSE IF x.t = "list"
         THEN IF Len(x.v) > 0 THEN x.v[1] ELSE Exc("IndexError", "list index out of range")
    ELSE IF x.t = "dict" THEN Exc("KeyError", "0")
    ELSE IF x.t = "None"
         THEN Exc("TypeError", "'NoneType' object is not subscriptable")
    ELSE Exc("TypeError", "object is not subscriptable")

(***************************************************************************)
(* services/parser.py                                                      *)
(***************************************************************************)
\* The names services/parser.py defines.
ParserExports == {"extract_serp_titles", "extract_organic_results"}

\* Variant: the filter without its type test.
KeepsTitle_any_type(item) == "title" \in DOMAIN item

\* item["type"] == "organic" and "title" in item
KeepsTitle(item) == item["type"] = "organic" /\ "title" \in DOMAIN item

TitlesOf(items) ==
    LET kept == SelectSeq(items, KeepsTitle)
    IN  [i \in 1..Len(kept) |-> kept[i]["title"]]

extract_serp_titles(dataforseo_response) ==
    LET items == GetItem(GetFirst(GetItem(dataforseo_response, "result")), "items")
    IN  IF IsExc(items) THEN items
        ELSE IF items.t = "None" THEN Exc("TypeError", "'NoneType' object is not iterable")
        ELSE IF items.t # "list" THEN Exc("TypeError", "string indices must be integers")
        ELSE IF \E i \in 1..Len(items.v) : "type" \notin DOMAIN items.v[i]
             THEN Exc("KeyError", "type")
        ELSE Arr(TitlesOf(items.v))

\* Variant: the records use the title filter of extract_serp_titles.
KeepsOrganic_titled(item) == item["type"] = "organic" /\ "title" \in DOMAIN item

\* if item["type"] != "organic": continue
KeepsOrganic(item) == item["type"] = "organic"

\* item.get(k, default)
ItemGet(item, k, default) == IF k \in DOMAIN item THEN item[k] ELSE default

\* The dict appended for one organic item (lines 20-27).
OrganicRecord(item, keyword, language_code, location_name) ==
    [keyword |-> keyword,
     title |-> ItemGet(item, "title", ""),
     url |-> ItemGet(item, "url", ""),
     position |-> ItemGet(item, "rank_group", 0),
     language |-> language_code,
     location_name |-> location_name]

extract_organic_results(dataforseo_response) ==
    LET block == GetFirst(GetItem(dataforseo_response, "result"))
        data == GetItem(dataforseo_response, "data")
        items == GetItem(block, "items")
    IN  IF IsExc(block) THEN block
        ELSE IF block.t # "dict" THEN Exc("TypeError", "indices must be integers")
        ELSE IF "keyword" \notin DOMAIN block.v THEN Exc("KeyError", "keyword")
        ELSE IF IsExc(data) THEN data
        ELSE IF data.t # "dict" THEN Exc("AttributeError", "object has no attribute 'get'")
        ELSE IF IsExc(items) THEN items
        ELSE IF items.t = "None" THEN Exc("TypeError", "'NoneType' object is not iterable")
        ELSE IF items.t # "list" THEN Exc("TypeError", "string indices must be integers")
        ELSE IF \E i \in 1..Len(items.v) : "type" \notin DOMAIN items.v[i]
             THEN Exc("KeyError", "type")
        ELSE LET kept == SelectSeq(items.v, KeepsOrganic)
                 language_code == ItemGet(data.v, "language_code", "en")
                 location_name == ItemGet(data.v, "location_name", "Unknown")
             IN  Arr([i \in 1..Len(kept) |->
                        OrganicRecord(kept[i], block.v["keyword"], language_code, location_name)])

(***************************************************************************)
(* SERP items: a type (the provider always sends one; an item without it   *)
(* is a structurally broken response) and an optional title.               *)
(***************************************************************************)
ItemTypes == {"organic", "paid"}
ItemTitles == {"", "A", "B"}
SerpItems ==
    [type : ItemTypes, title : ItemTitles] \cup [type : ItemTypes] \cup [title : {"A"}]
    \cup [type : ItemTypes, title : {"A"}, url : {"https://x.com/1"}, rank_group : {1, 2}]
    \cup [type : {"organic"}, url : {"https://x.com/1"}]

SeqsUpTo(S, n) == UNION {[1..k -> S] : k \in 0..n}

\* The shape main.py's POST /analyze and the fixtures carry.
Envelope(items) ==
    Obj([data |-> Obj([location_name |-> "United States", language_code |-> "en"]),
         result |-> Arr(<<Obj([keyword |-> "seo tips", items |-> Arr(items)])>>)])

\* The same with a data object that names neither location nor language.
BareEnvelope(items) ==
    [Envelope(items) EXCEPT !.v = [@ EXCEPT !["data"] = EmptyDict]]

ParserInputs ==
    {Envelope(items) : items \in SeqsUpTo(SerpItems, MaxItems)}
    \cup {BareEnvelope(items) : items \in SeqsUpTo(SerpItems, MaxItems - 1)}

(***************************************************************************)
(* services/dataforseo.py                                                  *)
(***************************************************************************)
\* An HTTP exchange as requests.post sees it: the transport worked or not,
\* the status, the raw body, and the body as response.json() decodes it.
NotJson == [t |-> "notjson"]
HttpResponse(net, status_code, text, json) ==
    [net |-> net, status_code |-> status_code, text |-> text, json |-> json]

\* Variant: the credential check looking at the login only.
fetch_credentials_login_only(login, password) ==
    IF Falsy(login)
    THEN Exc("RuntimeError", "Missing DataForSEO credentials")
    ELSE NoExc

\* if not DATAFORSEO_LOGIN or not DATAFORSEO_PASSWORD: raise RuntimeError(...)
fetch_credentials(login, password) ==
    IF Falsy(login) \/ Falsy(password)
    THEN Exc("RuntimeError", "Missing DataForSEO credentials")
    ELSE NoExc

\* try: return data["tasks"][0]["result"][0]
\* except (KeyError, IndexError): raise RuntimeError("Malformed DataForSEO response")
fetch_unwrap(data) ==
    LET block == GetFirst(GetItem(GetFirst(GetItem(data, "tasks")), "result"))
    IN  IF IsExc(block) /\ block.cls \in {"KeyError", "IndexError"}
        THEN Exc("RuntimeError", "Malformed DataForSEO response")
        ELSE block

\* Variant: only server errors are treated as a non-success status.
fetch_response_server_errors_only(response) ==
    IF response.net # "ok" THEN Exc("ConnectionError", "requests.post failed")
    ELSE IF response.status_code >= 500
         THEN [Exc("RuntimeError", "DataForSEO API error")
                 EXCEPT !.status = response.status_code, !.text = response.text]
    ELSE IF response.json.t = "notjson"
         THEN Exc("JSONDecodeError", "response.json() failed")
    ELSE fetch_unwrap(response.json)

\* Variant: a failed exchange is swallowed into an empty SERP.
fetch_response_swallowing(response) ==
    IF response.net # "ok" \/ response.status_code # 200 \/ response.json.t = "notjson"
    THEN Envelope(<<>>)
    ELSE fetch_unwrap(response.json)

\* fetch_live_serp from the return of requests.post on.
fetch_response(response) ==
    IF response.net # "ok" THEN Exc("ConnectionError", "requests.post failed")
    ELSE IF response.status_code # 200
         THEN [Exc("RuntimeError", "DataForSEO API error")
                 EXCEPT !.status = response.status_code, !.text = response.text]
    ELSE IF response.json.t = "notjson"
         THEN Exc("JSONDecodeError", "response.json() failed")
    ELSE fetch_unwrap(response.json)

\* The result block of a live SERP answer: {keyword, items, ...}.
ResultBlock(items) == Obj([keyword |-> "seo tips", items |-> Arr(items)])
SampleItems ==
    {<<>>, <<[type |-> "organic", title |-> "A"], [type |-> "paid", title |-> "B"]>>}

\* Success bodies: the documented shape, and the ones lacking tasks[0].result[0].
WellFormedBodies ==
    {Obj([tasks |-> Arr(<<Obj([result |-> Arr(<<ResultBlock(items)>>)])>>)])
        : items \in SampleItems}
PathAbsentBodies ==
    { Obj([status_code |-> 20000]),
      Obj([tasks |-> Arr(<<>>)]),
      Obj([tasks |-> Arr(<<Obj([id |-> "123456"])>>)]),
      Obj([tasks |-> Arr(<<Obj([result |-> Arr(<<>>)])>>)]),
      Obj([tasks |-> Arr(<<Obj([result |-> NoneV])>>)]) }

SerpResponses ==
    {HttpResponse("error", 0, "", NotJson)}
    \cup {HttpResponse("ok", s, "raw body", NotJson) : s \in {401, 500}}
    \cup {HttpResponse("ok", 200, "<html>", NotJson)}
    \cup {HttpResponse("ok", 200, "json", b) : b \in WellFormedBodies \cup PathAbsentBodies}

(***************************************************************************)
(* services/title_rewrite.py                                               *)
(*                                                                         *)
(* A reply text is a sequence of whitespace-separated tokens: a fence      *)
(* (three backticks), the word "json" (a language tag directly after a    *)
(* fence), "junk" (prose, not JSON) and "doc", one complete JSON document  *)
(* whose decoded value is the text's doc field.                            *)
(***************************************************************************)
Fence == "fence"
NoDoc == [t |-> "nodoc"]
Text(tokens, doc) == [t |-> "text", tokens |-> tokens, doc |-> doc]
EmptyText == Text(<<>>, NoDoc)

\* api_key = os.getenv("ANTHROPIC_API_KEY"); if not api_key: raise RuntimeError(...)
suggest_credentials(api_key) ==
    IF Falsy(api_key)
    THEN Exc("RuntimeError", "ANTHROPIC_API_KEY environment variable not set.")
    ELSE NoExc

PromptLimit == 10

\* Variant: no slice.
top_titles_unsliced(competitor_titles) == competitor_titles

\* top_titles = competitor_titles[:10]
top_titles(competitor_titles) ==
    SubSeq(competitor_titles, 1,
           IF Len(competitor_titles) < PromptLimit THEN Len(competitor_titles) ELSE PromptLimit)

\* What the slice leaves in the caller's list.
after_slice(competitor_titles) == competitor_titles

\* The template's three slots; competitor_titles is '\n'.join(f"- {t}" for t in top_titles).
build_prompt(query, user_title, top) ==
    [query |-> query, user_title |-> user_title,
     competitor_titles |-> [i \in 1..Len(top) |-> <<"- ", top[i]>>]]

\* json.loads(content)
json_loads(content) ==
    IF content.tokens = <<"doc">> THEN content.doc
    ELSE Exc("JSONDecodeError", "Expecting value")

\* re.search over fence, optional json tag, lazy group, fence: the first fence
\* that a later fence follows, and what lies between them after an optional
\* "json" tag.
re_search_fenced(tokens) ==
    LET fences == {i \in 1..Len(tokens) : tokens[i] = Fence}
    IN  IF Cardinality(fences) < 2 THEN [matched |-> FALSE, group |-> <<>>]
        ELSE LET open == CHOOSE i \in fences : \A j \in fences : i <= j
                 close == CHOOSE i \in fences \ {open} : \A j \in fences \ {open} : i <= j
                 between == SubSeq(tokens, open + 1, close - 1)
             IN  [matched |-> TRUE,
                  group |-> IF Len(between) > 0 /\ between[1] = "json"
                            THEN Tail(between) ELSE between]

DefaultStructure == Obj([suggestions |-> Arr(<<>>)])

\* Variant: no fenced-block fallback.
parse_content_whole_only(content) ==
    LET whole == json_loads(content)
    IN  IF ~IsExc(whole) THEN whole ELSE DefaultStructure

\* The nested try blocks of lines 94-109.
parse_content(content) ==
    LET whole == json_loads(content)
    IN  IF ~IsExc(whole) THEN whole
        ELSE LET json_match == re_search_fenced(content.tokens)
             IN  IF json_match.matched
                 THEN LET inner == json_loads(Text(json_match.group, content.doc))
                      IN  IF IsExc(inner) THEN DefaultStructure ELSE inner
                 ELSE DefaultStructure

\* if "suggestions" not in parsed_content: parsed_content = {"suggestions": []}
ensure_structure(parsed_content) ==
    LET has == Contains(parsed_content, "suggestions")
    IN  IF IsExc(has) THEN has
        ELSE IF ~has.v THEN DefaultStructure
        ELSE parsed_content

\* content = result.get("content", [{}])[0].get("text", "")
reply_text(result) ==
    LET block == GetFirst(DictGet(result, "content", Arr(<<EmptyDict>>)))
    IN  DictGet(block, "text", EmptyText)

\* The body of the outer try, from the return of requests.post on.
suggest_try(query, user_title, top, response) ==
    IF response.net # "ok" THEN Exc("ConnectionError", "requests.post failed")
    ELSE IF response.status_code >= 400
         THEN [Exc("HTTPError", "raise_for_status") EXCEPT !.status = response.status_code]
    ELSE IF response.json.t = "notjson"
         THEN Exc("JSONDecodeError", "response.json() failed")
    ELSE LET content == reply_text(response.json)
         IN  IF IsExc(content) THEN content
             ELSE LET parsed_content == ensure_structure(parse_content(content))
                      suggestions == GetItem(parsed_content, "suggestions")
                  IN  IF IsExc(suggestions) THEN suggestions
                      ELSE Obj([query |-> query,
                                user_title |-> user_title,
                                similarity_score |-> NoneV,
                                top_serp_titles |-> Arr(top),
                                suggestions |-> suggestions])

\* Variant: a failure is swallowed into a result without suggestions.
suggest_response_swallowing(query, user_title, top, response) ==
    LET r == suggest_try(query, user_title, top, response)
    IN  IF IsExc(r)
        THEN Obj([query |-> query,
                  user_title |-> user_title,
                  similarity_score |-> NoneV,
                  top_serp_titles |-> Arr(top),
                  suggestions |-> Arr(<<>>)])
        ELSE r

\* except Exception as e: raise RuntimeError(f"Error calling Claude API: {str(e)}")
suggest_response(query, user_title, top, response) ==
    LET r == suggest_try(query, user_title, top, response)
    IN  IF IsExc(r)
        THEN [Exc("RuntimeError", "Error calling Claude API") EXCEPT !.cause = r.cls]
        ELSE r


(***************************************************************************)
(* What the LLM endpoint may answer.                                       *)
(***************************************************************************)
Range(s) == {s[i] : i \in 1..Len(s)}

\* Suggestion objects {title, description, rationale}, named s1 and s2.
SuggLists ==
    {[i \in 1..n |-> IF (i % 2 = 1) = odd THEN "s1" ELSE "s2"] : n \in 0..MaxSugg, odd \in BOOLEAN}

SuggestionDocs == {Obj([suggestions |-> Arr(l)]) : l \in SuggLists}
OtherDocs ==
    { Obj([titles |-> Arr(<<"s1">>)]),
      Arr(<<"s1">>),
      Arr(<<"suggestions">>),
      [t |-> "int", v |-> 5],
      StrV(<<"hello">>),
      StrV(<<"my", "suggestions">>),
      BoolV(TRUE),
      NoneV }
JsonDocs == SuggestionDocs \cup OtherDocs

Tokens == {Fence, "json", "junk", "doc"}
\* The documents a token sequence can carry: one of docs where it has a "doc" token.
DocsFor(s, docs) == IF "doc" \in Range(s) THEN docs ELSE {NoDoc}

MessageWith(content) == Obj([type |-> "message", content |-> content])
TextBlock(text) == Obj([type |-> "text", text |-> text])

LlmBodies(texts) ==
    { Obj([type |-> "message"]),
      MessageWith(Arr(<<>>)),
      MessageWith(Arr(<<Obj([type |-> "tool_use"])>>)) }
    \cup {MessageWith(Arr(<<TextBlock(text)>>)) : text \in texts}

TextResponse(text) == HttpResponse("ok", 200, "json", MessageWith(Arr(<<TextBlock(text)>>)))

LlmResponses(texts) ==
    {HttpResponse("error", 0, "", NotJson)}
    \cup {HttpResponse("ok", s, "raw body", NotJson) : s \in {401, 529}}
    \cup {HttpResponse("ok", 200, "<html>", NotJson)}
    \cup {HttpResponse("ok", 300, "", NotJson)}
    \cup {HttpResponse("ok", s, "json", b) : s \in {200, 300}, b \in LlmBodies(texts)}

TwoSuggestions == Obj([suggestions |-> Arr(<<"s1", "s2">>)])
SampleTexts ==
    { Text(<<"doc">>, TwoSuggestions),
      Text(<<Fence, "json", "doc", Fence>>, TwoSuggestions),
      Text(<<"junk">>, NoDoc),
      Text(<<"doc">>, [t |-> "int", v |-> 5]) }

(***************************************************************************)
(* The gateways: mcp_server.py (POST /mcp/tools/{name}), main.py           *)
(* (POST /analyze) and mcp_stdio_server.py (call_tool).                    *)
(***************************************************************************)
Answer(status, view, exc) == [status |-> status, view |-> view, exc |-> exc]
NoAnswer == Answer(0, "none", NoExc)

\* execute_tool's except clauses, for an exception raised outside
\* _analyze_title's try block.
execute_tool_except(e) ==
    IF IsValueError(e) THEN Answer(400, "error", e)
    ELSE IF e.cls = "HTTPException" THEN Answer(e.status, "error", e)
    ELSE Answer(500, "error", e)

\* _analyze_title's except Exception: raise HTTPException(status_code=500, ...),
\* which execute_tool answers with e.status_code.
analyze_title_except(e) ==
    execute_tool_except(
        [Exc("HTTPException", "Error analyzing title") EXCEPT !.status = 500, !.cause = e.cls])

\* analyze_title_tool's three except clauses.
analyze_title_tool_except(e) ==
    IF IsValueError(e) THEN Answer(0, "invalid_request", e)
    ELSE IF IsRuntimeError(e) THEN Answer(0, "service_error", e)
    ELSE Answer(0, "unexpected_error", e)

\* simplified_title_analysis: except Exception as e: return {"error": str(e)}
simplified_except(e) == Answer(200, "error", e)

\* The answer a transport gives to an exception raised in its pipeline.
PipelineExcept(tr, e) ==
    IF tr = "http_tool" THEN analyze_title_except(e)
    ELSE IF tr = "stdio" THEN analyze_title_tool_except(e)
    ELSE simplified_except(e)

\* AnalyzeTitleInput(**arguments): query and user_title are required str fields.
RequiredFields == <<"query", "user_title">>
FieldInvalid(arguments_, k) ==
    k \notin DOMAIN arguments_.v \/ arguments_.v[k].t # "str"
AnalyzeTitleInput(arguments_) ==
    IF \E i \in 1..Len(RequiredFields) : FieldInvalid(arguments_, RequiredFields[i])
    THEN Exc("ValidationError",
             RequiredFields[CHOOSE i \in 1..Len(RequiredFields) :
                 /\ FieldInvalid(arguments_, RequiredFields[i])
                 /\ \A j \in 1..(i - 1) : ~FieldInvalid(arguments_, RequiredFields[j])])
    ELSE NoExc

\* str.lower() on the words the model's queries are made of.
LowerWord(w) ==
    CASE w = "Sweepstakes" -> "sweepstakes"
      [] w = "Casinos" -> "casinos"
      [] OTHER -> w
Lower(words) == [i \in 1..Len(words) |-> LowerWord(words[i])]
FixtureKeyword == <<"sweepstakes", "casinos">>

\* Variant: the query is compared with the fixture keyword as written.
serp_source_case_sensitive(arguments_) ==
    LET query == DictGet(arguments_, "query", NoneV)
        use_test_data == DictGet(arguments_, "use_test_data", BoolV(FALSE))
    IN  IF ~Falsy(use_test_data) THEN [route |-> "fixture", exc |-> NoExc]
        ELSE IF query.t # "str"
             THEN [route |-> "raise",
                   exc |-> Exc("AttributeError", "'NoneType' object has no attribute 'lower'")]
        ELSE IF query.v = FixtureKeyword THEN [route |-> "fixture", exc |-> NoExc]
        ELSE [route |-> "live", exc |-> NoExc]

\* if use_test_data or query.lower() == "sweepstakes casinos": "fixture", else
\* "live"; query.lower() raises when query is None.
serp_source(arguments_) ==
    LET query == DictGet(arguments_, "query", NoneV)
        use_test_data == DictGet(arguments_, "use_test_data", BoolV(FALSE))
    IN  IF ~Falsy(use_test_data) THEN [route |-> "fixture", exc |-> NoExc]
        ELSE IF query.t # "str"
             THEN [route |-> "raise",
                   exc |-> Exc("AttributeError", "'NoneType' object has no attribute 'lower'")]
        ELSE IF Lower(query.v) = FixtureKeyword THEN [route |-> "fixture", exc |-> NoExc]
        ELSE [route |-> "live", exc |-> NoExc]

\* open("data/payload.json") ... serp = test_data.get("serp_json", {})
FixtureFiles ==
    { [found |-> FALSE, json |-> NotJson],
      [found |-> TRUE, json |-> Obj([serp_json |-> Envelope(<<>>)])],
      [found |-> TRUE,
       json |-> Obj([serp_json |-> Envelope(<<[type |-> "organic", title |-> "A"]>>)])],
      [found |-> TRUE, json |-> Obj([query |-> StrV(<<"seo", "tips">>)])] }
load_fixture(file) ==
    IF ~file.found \/ file.json.t = "notjson"
    THEN Exc("RuntimeError", "Error loading test data")
    ELSE DictGet(file.json, "serp_json", EmptyDict)

\* from services.parser import extract_organic_results, extract_paa_questions
StdioImports == {"extract_organic_results", "extract_paa_questions"}
import_parser(names) ==
    IF names \subseteq ParserExports THEN NoExc
    ELSE Exc("ImportError", "cannot import name from services.parser")

\* From `serp` to the call of suggest_better_titles: the titles, or what was raised.
titles_step(tr, serp) ==
    LET extracted == extract_serp_titles(serp)
    IN  IF IsExc(extracted) THEN extracted
        ELSE IF tr = "stdio" /\ IsExc(import_parser(StdioImports))
             THEN import_parser(StdioImports)
        ELSE extracted

\* After suggest_better_titles returned `raw`: the rest of the handler.
\* analyze_title_tool goes on to call generate_enhanced_analysis(organic_results,
\* competitor_titles, ...), names the module never defines.
format_step(tr, raw) ==
    IF tr = "stdio"
    THEN analyze_title_tool_except(Exc("NameError", "generate_enhanced_analysis"))
    ELSE Answer(200, "result", NoExc)

\* config.py: DEFAULT_LOCATION_CODE, DEFAULT_LANGUAGE_CODE, DEFAULT_DEVICE, as the
\* tool's input schema documents them.
DEFAULT_LOCATION_CODE == 2840
IntV(n) == [t |-> "int", v |-> n]
DefaultLocation == IntV(DEFAULT_LOCATION_CODE)
DefaultLanguage == StrV(<<"en">>)
DefaultDevice == StrV(<<"desktop">>)

\* value or default
or_default(value, default) == IF Falsy(value) THEN default ELSE value

(***************************************************************************)
(* Steps shared by the handlers.  A handler runs to its next network call  *)
(* or to its answer.                                                       *)
(***************************************************************************)
Reply(answer) == outcome' = answer /\ pc' = "done"

Fail(e) == Reply(PipelineExcept(transport, e)) /\ UNCHANGED <<titles, engVars>>

\* suggest_better_titles up to requests.post (lines 6-84).
EngineBegin(query, user_title, competitor_titles) ==
    /\ sb_args' = [query |-> query, user_title |-> user_title,
                   competitor_titles |-> competitor_titles]
    /\ suggest_calls' = suggest_calls + 1
    /\ IF IsExc(suggest_credentials(ANTHROPIC_API_KEY))
       THEN /\ sb_pc' = "raised"
            /\ sb_result' = suggest_credentials(ANTHROPIC_API_KEY)
            /\ caller_titles' = competitor_titles
            /\ UNCHANGED <<prompt, llm_posts>>
       ELSE /\ sb_pc' = "posted"
            /\ sb_result' = Pending
            /\ caller_titles' = after_slice(competitor_titles)
            /\ prompt' = build_prompt(query, user_title, top_titles(competitor_titles))
            /\ llm_posts' = llm_posts + 1

\* suggest_better_titles from the return of requests.post on (lines 85-122).
EngineEnd ==
    /\ sb_pc = "posted"
    /\ sb_result' = suggest_response(sb_args.query, sb_args.user_title,
                                     top_titles(sb_args.competitor_titles), llm_response)
    /\ sb_pc' = IF IsExc(sb_result') THEN "raised" ELSE "returned"
    /\ UNCHANGED <<sb_args, caller_titles, suggest_calls, prompt, llm_posts>>

InvokeSuggest(query, user_title, competitor_titles) ==
    /\ EngineBegin(query, user_title, competitor_titles)
    /\ IF IsExc(suggest_credentials(ANTHROPIC_API_KEY))
       THEN Reply(PipelineExcept(transport, suggest_credentials(ANTHROPIC_API_KEY)))
       ELSE pc' = "llm_wait" /\ UNCHANGED outcome

\* From the SERP data to the LLM call.
Continue(serp) ==
    LET extracted == extract_serp_titles(serp)
        ts == titles_step(transport, serp)
    IN  IF IsExc(extracted) THEN Fail(extracted)
        ELSE IF IsExc(ts)
             THEN /\ titles' = extracted
                  /\ Reply(PipelineExcept(transport, ts))
                  /\ UNCHANGED engVars
        ELSE /\ titles' = ts
             /\ InvokeSuggest(DictGet(arguments, "query", NoneV),
                              DictGet(arguments, "user_title", NoneV), ts.v)

\* fetch_live_serp up to requests.post (lines 4-23).
CallFetch(keyword, location_code, language_code, device) ==
    /\ fetch_calls' = fetch_calls + 1
    /\ fetch_args' = [keyword |-> keyword, location_code |-> location_code,
                      language_code |-> language_code, device |-> device]
    /\ UNCHANGED <<fixture_reads, serp_response>>
    /\ IF IsExc(fetch_credentials(DATAFORSEO_LOGIN, DATAFORSEO_PASSWORD))
       THEN /\ fetch_result' = fetch_credentials(DATAFORSEO_LOGIN, DATAFORSEO_PASSWORD)
            /\ UNCHANGED serp_posts
            /\ Fail(fetch_credentials(DATAFORSEO_LOGIN, DATAFORSEO_PASSWORD))
       ELSE /\ fetch_result' = Pending
            /\ serp_posts' = serp_posts + 1
            /\ pc' = "serp_wait"
            /\ UNCHANGED <<titles, outcome, engVars>>

(***************************************************************************)
(* The handlers.                                                           *)
(***************************************************************************)
\* POST /mcp/tools/{tool_name}: execute_tool, MCPServer.execute_tool, _analyze_title.
execute_tool ==
    /\ transport = "http_tool" /\ pc = "received"
    /\ IF tool_name # "analyze_title"
       THEN /\ Reply(execute_tool_except(Exc("ValueError", "Unknown tool")))
            /\ UNCHANGED <<titles, engVars, serpVars>>
       ELSE IF IsExc(AnalyzeTitleInput(arguments))
       THEN /\ Reply(execute_tool_except(AnalyzeTitleInput(arguments)))
            /\ UNCHANGED <<titles, engVars, serpVars>>
       ELSE CallFetch(DictGet(arguments, "query", NoneV),
                      or_default(DictGet(arguments, "location_code", NoneV), DefaultLocation),
                      or_default(DictGet(arguments, "language_code", NoneV), DefaultLanguage),
                      or_default(DictGet(arguments, "device", NoneV), DefaultDevice))
    /\ UNCHANGED <<envVars, reqVars, llm_response, parserVars>>

\* call_tool on stdio: handle_call_tool, analyze_title_tool.  The ValueError
\* for an unknown tool leaves handle_call_tool.
handle_call_tool ==
    /\ transport = "stdio" /\ pc = "received"
    /\ IF tool_name # "analyze_title"
       THEN /\ Reply(Answer(0, "raised", Exc("ValueError", "Unknown tool")))
            /\ UNCHANGED <<titles, engVars, serpVars>>
       ELSE IF serp_source(arguments).route = "raise"
       THEN /\ Fail(serp_source(arguments).exc)
            /\ UNCHANGED serpVars
       ELSE IF serp_source(arguments).route = "live"
       THEN CallFetch(DictGet(arguments, "query", NoneV),
                      DictGet(arguments, "location_code", DefaultLocation),
                      DictGet(arguments, "language_code", DefaultLanguage),
                      DictGet(arguments, "device", DefaultDevice))
       ELSE \E file \in FixtureFiles :
               /\ fixture_reads' = fixture_reads + 1
               /\ UNCHANGED <<fetch_calls, fetch_args, serp_posts, serp_response, fetch_result>>
               /\ IF IsExc(load_fixture(file)) THEN Fail(load_fixture(file))
                  ELSE Continue(load_fixture(file))
    /\ UNCHANGED <<envVars, reqVars, llm_response, parserVars>>

\* POST /analyze: simplified_title_analysis.
simplified_title_analysis ==
    /\ transport = "http_analyze" /\ pc = "received"
    /\ Continue(arguments.v["serp_json"])
    /\ UNCHANGED <<envVars, reqVars, serpVars, llm_response, parserVars>>

\* data/serp-sample.json as open and json.load find it.
SampleFiles ==
    { [found |-> FALSE, json |-> NotJson],
      [found |-> TRUE, json |-> NotJson],
      [found |-> TRUE, json |-> Envelope(<<>>)],
      [found |-> TRUE,
       json |-> Envelope(<<[type |-> "organic", title |-> "A", url |-> "https://x.com/1",
                            rank_group |-> 1]>>)],
      [found |-> TRUE, json |-> ResultBlock(<<>>)] }
load_sample(file) ==
    IF ~file.found THEN Exc("FileNotFoundError", "data/serp-sample.json")
    ELSE IF file.json.t = "notjson" THEN Exc("JSONDecodeError", "Expecting value")
    ELSE file.json

\* GET /analyze: analyze.  SerpEntry(**item) accepts the records or raises.
analyze ==
    /\ transport = "http_get_analyze" /\ pc = "received"
    /\ \E file \in SampleFiles, entries_built \in BOOLEAN :
          LET raw_data == load_sample(file)
              serp_entries == extract_organic_results(raw_data)
          IN  Reply(IF IsExc(raw_data) THEN simplified_except(raw_data)
                    ELSE IF IsExc(serp_entries) THEN simplified_except(serp_entries)
                    ELSE IF ~entries_built
                         THEN simplified_except(Exc("ValidationError", "SerpEntry"))
                    ELSE Answer(200, "result", NoExc))
    /\ UNCHANGED <<titles, engVars, serpVars>>
    /\ UNCHANGED <<envVars, reqVars, llm_response, parserVars>>

\* get_resource's except clauses (endpoint).
get_resource_except(e) ==
    IF IsValueError(e) THEN Answer(400, "error", e) ELSE Answer(500, "error", e)

\* GET /mcp/resources/{uri}: get_resource, MCPServer.get_resource.
get_resource ==
    /\ transport = "http_resource" /\ pc = "received"
    /\ IF tool_name = "sample_serp_data"
       THEN \E file \in SampleFiles :
               Reply(IF IsExc(load_sample(file))
                     THEN get_resource_except(Exc("ValueError", "Error loading sample SERP data"))
                     ELSE Answer(200, "resource", NoExc))
       ELSE Reply(get_resource_except(Exc("ValueError", "Unknown resource URI")))
    /\ UNCHANGED <<titles, engVars, serpVars>>
    /\ UNCHANGED <<envVars, reqVars, llm_response, parserVars>>

\* The SERP provider answers; fetch_live_serp and the handler go on.
SerpProviderResponds ==
    /\ pc = "serp_wait"
    /\ \E response \in SerpResponses :
          /\ serp_response' = response
          /\ fetch_result' = fetch_response(response)
          /\ IF IsExc(fetch_response(response)) THEN Fail(fetch_response(response))
             ELSE Continue(fetch_response(response))
    /\ UNCHANGED <<fetch_calls, fetch_args, serp_posts, fixture_reads>>
    /\ UNCHANGED <<envVars, reqVars, llm_response, parserVars>>

\* The LLM provider answers; suggest_better_titles and the handler go on.
LlmProviderResponds ==
    /\ pc = "llm_wait"
    /\ EngineEnd
    /\ Reply(IF IsExc(sb_result') THEN PipelineExcept(transport, sb_result')
             ELSE format_step(transport, sb_result'))
    /\ UNCHANGED <<titles, serpVars, envVars, reqVars, llm_response, parserVars>>

(***************************************************************************)
(* Requests and environments.                                              *)
(***************************************************************************)
Secret == StrV(<<"secret">>)
QueryValues == {Missing, StrV(<<>>), StrV(<<"seo", "tips">>), StrV(<<"Sweepstakes", "Casinos">>)}
UserTitleValues == {Missing, StrV(<<>>), StrV(<<"My", "Title">>)}
TestFlagValues == {Missing, BoolV(FALSE), BoolV(TRUE)}

LocationValues == {Missing, NoneV, IntV(0), IntV(2826)}
LanguageValues == {Missing, NoneV, StrV(<<"de">>)}
DeviceValues == {Missing, NoneV, StrV(<<"mobile">>)}

ToolArguments ==
    {DictOf({<<"query", q>>, <<"user_title", u>>, <<"use_test_data", f>>})
        : q \in QueryValues, u \in UserTitleValues, f \in TestFlagValues}
    \cup {DictOf({<<"query", StrV(<<"seo", "tips">>)>>, <<"user_title", StrV(<<"My", "Title">>)>>,
                  <<"location_code", l>>, <<"language_code", g>>, <<"device", d>>})
            : l \in LocationValues, g \in LanguageValues, d \in DeviceValues}

\* POST /analyze bodies, which FastAPI has validated as {query: str, user_title: str,
\* serp_json: dict} before the handler runs.
AnalyzeBodies ==
    {DictOf({<<"query", q>>, <<"user_title", StrV(<<"My", "Title">>)>>, <<"serp_json", j>>})
        : q \in {StrV(<<>>), StrV(<<"seo", "tips">>)},
          j \in {Envelope(items) : items \in SampleItems} \cup {ResultBlock(<<>>)}}

Requests ==
    {[transport |-> tr, tool_name |-> n, arguments |-> a]
        : tr \in {"http_tool", "stdio"}, n \in {"analyze_title", "other_tool"},
          a \in ToolArguments}
    \cup {[transport |-> "http_analyze", tool_name |-> "analyze", arguments |-> a]
            : a \in AnalyzeBodies}
    \cup {[transport |-> "http_get_analyze", tool_name |-> "analyze", arguments |-> EmptyDict]}
    \cup {[transport |-> "http_resource", tool_name |-> uri, arguments |-> EmptyDict]
            : uri \in {"sample_serp_data", "other_resource"}}

IdleEngine ==
    /\ sb_pc = "idle"
    /\ sb_args = [query |-> NoneV, user_title |-> NoneV, competitor_titles |-> <<>>]
    /\ caller_titles = <<>>
    /\ suggest_calls = 0
    /\ prompt = Pending
    /\ llm_posts = 0
    /\ sb_result = Pending

IdleSerp ==
    /\ fetch_calls = 0
    /\ fetch_args = Pending
    /\ serp_posts = 0
    /\ serp_response = HttpResponse("pending", 0, "", NotJson)
    /\ fetch_result = Pending
    /\ fixture_reads = 0

IdleReport ==
    /\ dm_url = <<>>
    /\ dm_result = Pending

IdleParser ==
    /\ px_pc = "off"
    /\ px_input = EmptyDict
    /\ px_titles = Pending
    /\ px_records = Pending

Init ==
    /\ DATAFORSEO_LOGIN \in {NoneV, StrV(<<>>), Secret}
    /\ DATAFORSEO_PASSWORD \in {NoneV, Secret}
    /\ ANTHROPIC_API_KEY \in {NoneV, Secret}
    /\ \E r \in Requests :
          /\ transport = r.transport
          /\ tool_name = r.tool_name
          /\ arguments = r.arguments
    /\ pc = "received"
    /\ titles = Pending
    /\ outcome = NoAnswer
    /\ llm_response \in LlmResponses(SampleTexts)
    /\ IdleSerp
    /\ IdleEngine
    /\ IdleParser
    /\ IdleReport

Next ==
    \/ execute_tool
    \/ handle_call_tool
    \/ simplified_title_analysis
    \/ analyze
    \/ get_resource
    \/ SerpProviderResponds
    \/ LlmProviderResponds

Spec == Init /\ [][Next]_vars

(***************************************************************************)
(* suggest_better_titles on its own: one call, with the arguments and the  *)
(* LLM endpoint's answer drawn in the initial state.                       *)
(***************************************************************************)
IdleGateway ==
    /\ DATAFORSEO_LOGIN = NoneV
    /\ DATAFORSEO_PASSWORD = NoneV
    /\ transport = "unit"
    /\ tool_name = "unit"
    /\ arguments = EmptyDict
    /\ pc = "unit"
    /\ titles = Pending
    /\ outcome = NoAnswer
    /\ IdleSerp

EngineInit(keys, titleLists) ==
    /\ IdleGateway
    /\ IdleParser
    /\ IdleReport
    /\ ANTHROPIC_API_KEY \in keys
    /\ sb_pc = "idle"
    /\ sb_args \in [query : {StrV(<<"seo", "tips">>)},
                    user_title : {StrV(<<"My", "Title">>)},
                    competitor_titles : titleLists]
    /\ caller_titles = sb_args.competitor_titles
    /\ suggest_calls = 0
    /\ prompt = Pending
    /\ llm_posts = 0
    /\ sb_result = Pending

SuggestCall ==
    /\ pc = "unit" /\ sb_pc = "idle"
    /\ EngineBegin(sb_args.query, sb_args.user_title, sb_args.competitor_titles)
    /\ UNCHANGED <<envVars, reqVars, gwVars, serpVars, llm_response, parserVars>>

SuggestReturn ==
    /\ pc = "unit"
    /\ EngineEnd
    /\ UNCHANGED <<envVars, reqVars, gwVars, serpVars, llm_response, parserVars>>

NextSuggest == SuggestCall \/ SuggestReturn

\* Every reply text up to MaxTextLen tokens, for one competitor list.
InitSuggest ==
    /\ EngineInit({NoneV, Secret}, {<<"A", "B">>})
    /\ \/ llm_response \in LlmResponses({})
       \/ \E s \in SeqsUpTo(Tokens, MaxTextLen) : \E d \in DocsFor(s, JsonDocs) :
             llm_response = TextResponse(Text(s, d))

SpecSuggest == InitSuggest /\ [][NextSuggest]_vars

\* Every competitor list up to MaxTitles titles, for a few replies.
CompetitorTitles == {"A", "B"}
InitPrompt ==
    /\ EngineInit({NoneV, StrV(<<>>), Secret}, SeqsUpTo(CompetitorTitles, MaxTitles))
    /\ llm_response \in LlmResponses({Text(<<"doc">>, TwoSuggestions)})

SpecPrompt == InitPrompt /\ [][NextSuggest]_vars

(***************************************************************************)
(* extract_serp_titles on its own.                                         *)
(***************************************************************************)
InitParser ==
    /\ IdleGateway
    /\ IdleEngine
    /\ ANTHROPIC_API_KEY = NoneV
    /\ llm_response = HttpResponse("error", 0, "", NotJson)
    /\ px_pc = "input"
    /\ px_input \in ParserInputs
    /\ px_titles = Pending
    /\ px_records = Pending
    /\ IdleReport

RunExtractTitles ==
    /\ px_pc = "input"
    /\ px_titles' = extract_serp_titles(px_input)
    /\ px_pc' = "done"
    /\ UNCHANGED <<px_input, px_records, reportVars>>
    /\ UNCHANGED <<envVars, reqVars, gwVars, serpVars, engVars, llm_response>>

RunExtractOrganic ==
    /\ px_pc \in {"input", "done"} /\ px_records = Pending
    /\ px_records' = extract_organic_results(px_input)
    /\ UNCHANGED <<px_pc, px_input, px_titles, reportVars>>
    /\ UNCHANGED <<envVars, reqVars, gwVars, serpVars, engVars, llm_response>>

NextParser == RunExtractTitles \/ RunExtractOrganic

SpecParser == InitParser /\ [][NextParser]_vars

(***************************************************************************)
(* The report's domain and TLD lines for one organic record.  A url is a   *)
(* sequence of tokens: "/", "." and words without either.                  *)
(***************************************************************************)
RECURSIVE Split(_, _)
\* str.split(sep): the pieces between the separators, empty ones included.
Split(s, sep) ==
    IF \A i \in 1..Len(s) : s[i] # sep THEN <<s>>
    ELSE LET k == CHOOSE i \in 1..Len(s) : s[i] = sep /\ \A j \in 1..(i - 1) : s[j] # sep
         IN  <<SubSeq(s, 1, k - 1)>> \o Split(SubSeq(s, k + 1, Len(s)), sep)

Placeholder == <<"N/A">>

\* result.get('url', '').split('/')[2] if result.get('url') else 'N/A'
domain_line(url) ==
    IF url = <<>> THEN StrV(Placeholder)
    ELSE IF Len(Split(url, "/")) >= 3 THEN StrV(Split(url, "/")[3])
    ELSE Exc("IndexError", "list index out of range")

\* domains = [result.get('url', '').split('/')[2] for result in organic_results
\*            if result.get('url')]
domains_of(url) ==
    IF url = <<>> THEN Arr(<<>>)
    ELSE IF Len(Split(url, "/")) >= 3 THEN Arr(<<Split(url, "/")[3]>>)
    ELSE Exc("IndexError", "list index out of range")

\* tlds = [domain.split('.')[-1] for domain in domains if domain and '.' in domain]
tld_of(domain) == Split(domain, ".")[Len(Split(domain, "."))]
HasDot(domain) == \E i \in 1..Len(domain) : domain[i] = "."
tlds_of(domains) ==
    LET kept == SelectSeq(domains, HasDot)
    IN  [i \in 1..Len(kept) |-> tld_of(kept[i])]

\* Lines 162, 202 and 207 for an organic record with this url.
domain_report(url) ==
    IF IsExc(domain_line(url)) THEN domain_line(url)
    ELSE IF IsExc(domains_of(url)) THEN domains_of(url)
    ELSE [t |-> "report",
          domain |-> domain_line(url).v,
          domains |-> domains_of(url).v,
          tlds |-> tlds_of(domains_of(url).v)]

UrlTokens == {"/", ".", "x"}
SampleUrls ==
    { <<"https:", "/", "/", "example", ".", "co", ".", "uk", "/", "page">>,
      <<"example", ".", "com", "/", "page">>,
      <<"https:", "/", "/", "localhost">> }
Urls == SeqsUpTo(UrlTokens, MaxUrlLen) \cup SampleUrls

InitDomain ==
    /\ IdleGateway
    /\ IdleEngine
    /\ IdleParser
    /\ ANTHROPIC_API_KEY = NoneV
    /\ llm_response = HttpResponse("error", 0, "", NotJson)
    /\ dm_url \in Urls
    /\ dm_result = Pending

RunDomainReport ==
    /\ dm_result = Pending /\ pc = "unit" /\ px_pc = "off"
    /\ dm_result' = domain_report(dm_url)
    /\ UNCHANGED <<dm_url, px_pc, px_input, px_titles, px_records>>
    /\ UNCHANGED <<envVars, reqVars, gwVars, serpVars, engVars, llm_response>>

NextDomain == RunDomainReport

SpecDomain == InitDomain /\ [][NextDomain]_vars

(***************************************************************************)
(* Properties.                                                             *)
(***************************************************************************)
IsToolDispatch == transport \in {"http_tool", "stdio"} /\ tool_name = "analyze_title"

\* The argument is not given, or given as null or as the empty string.
ArgLacking(k) == k \notin DOMAIN arguments.v \/ Falsy(arguments.v[k])

\* A validation failure as the caller sees it: a 4xx status (HTTP) or the
\* invalid-request report (stdio), carrying a ValueError that names the field.
IsValidationAnswer(answer) ==
    /\ answer.status \in 400..499 \/ answer.view = "invalid_request"
    /\ IsExc(answer.exc)
    /\ IsValueError(answer.exc)
    /\ answer.exc.msg \in {"query", "user_title"}

\* C1: an analyze_title dispatch (HTTP tool or stdio) that lacks query or
\* user_title, or gives either as the empty string, ends in a ValidationError
\* answer, and neither fetch_live_serp nor suggest_better_titles is invoked.
C1_ValidationBeforePipeline ==
    (IsToolDispatch /\ (ArgLacking("query") \/ ArgLacking("user_title")))
        => /\ fetch_calls = 0
           /\ suggest_calls = 0
           /\ pc = "done" => IsValidationAnswer(outcome)

(***************************************************************************)
(* The suggestion engine's reply handling.                                 *)
(***************************************************************************)
\* suggest_better_titles has posted to the LLM endpoint and has finished.
EngineAnswered == llm_posts = 1 /\ sb_pc \in {"returned", "raised"}

\* The endpoint delivered a 2xx answer with a JSON body.
Delivered ==
    /\ llm_response.net = "ok"
    /\ llm_response.status_code \in 200..299
    /\ llm_response.json.t # "notjson"

\* The delivered body is a message whose first content block has a text.
HasReplyText ==
    /\ Delivered
    /\ llm_response.json.t = "dict"
    /\ "content" \in DOMAIN llm_response.json.v
    /\ llm_response.json.v["content"].t = "list"
    /\ Len(llm_response.json.v["content"].v) > 0
    /\ "text" \in DOMAIN llm_response.json.v["content"].v[1].v
ReplyText == llm_response.json.v["content"].v[1].v["text"]

\* The text carries a JSON object with a "suggestions" list.
CarriesSuggestions(text) == text.doc.t = "dict" /\ "suggestions" \in DOMAIN text.doc.v
SuggestionsOf(text) == text.doc.v["suggestions"].v

WholeIsJson(text) == text.tokens = <<"doc">>

\* Markdown's fenced blocks: the fences pair up in order, first with second,
\* third with fourth; a "json" directly after the opening fence is the block's
\* language tag, the rest up to the closing fence its content.
FenceAt(tokens) == {i \in 1..Len(tokens) : tokens[i] = Fence}
FenceRank(tokens, i) == Cardinality({j \in FenceAt(tokens) : j <= i})
BlockContent(tokens, open, close) ==
    IF close > open + 1 /\ tokens[open + 1] = "json"
    THEN SubSeq(tokens, open + 2, close - 1)
    ELSE SubSeq(tokens, open + 1, close - 1)
FencedBlocks(tokens) ==
    {b \in FenceAt(tokens) \X FenceAt(tokens) :
        /\ FenceRank(tokens, b[1]) % 2 = 1
        /\ FenceRank(tokens, b[2]) = FenceRank(tokens, b[1]) + 1}
HasFencedJson(text) ==
    \E b \in FencedBlocks(text.tokens) : BlockContent(text.tokens, b[1], b[2]) = <<"doc">>
FirstFencedIsJson(text) ==
    \E b \in FencedBlocks(text.tokens) :
        /\ FenceRank(text.tokens, b[1]) = 1
        /\ BlockContent(text.tokens, b[1], b[2]) = <<"doc">>

Returned(list) ==
    /\ sb_pc = "returned"
    /\ sb_result.v["suggestions"].t = "list"
    /\ Len(sb_result.v["suggestions"].v) = Len(list)
    /\ \A i \in 1..Len(list) : sb_result.v["suggestions"].v[i] = list[i]

C3_DeliveredNeverRaises ==
    (EngineAnswered /\ Delivered) =>
        /\ sb_pc = "returned"
        /\ (~HasReplyText \/ ~CarriesSuggestions(ReplyText)) => Returned(<<>>)

\* raise_for_status raises for the 4xx and 5xx statuses.
LlmCallFailed == llm_response.net # "ok" \/ llm_response.status_code \notin 200..299
LlmCallErrored == llm_response.net # "ok" \/ llm_response.status_code >= 400
RaisedUpstreamError ==
    /\ sb_pc = "raised"
    /\ IsExc(sb_result)
    /\ sb_result.cls = "RuntimeError"
    /\ sb_result.msg = "Error calling Claude API"

\* C4 as claimed: when the LLM call fails (no answer, or a non-2xx status)
\* the engine raises an error carrying the failure, returns no result, and
\* has issued the one call only.
C4_Non2xxRaises ==
    /\ llm_posts <= 1
    /\ (EngineAnswered /\ LlmCallFailed) => RaisedUpstreamError

\* C4 (amended): when the LLM call fails (no answer, or a 4xx or 5xx status)
\* the engine raises a RuntimeError carrying the failure, returns no result,
\* and has issued the one call only.
C4_TransportFailureRaises ==
    /\ llm_posts <= 1
    /\ (EngineAnswered /\ LlmCallErrored) =>
          /\ RaisedUpstreamError
          /\ sb_result.cause \in {"ConnectionError", "HTTPError"}
C4_Witness ==
    /\ EngineAnswered
    /\ llm_response.net = "ok" /\ llm_response.status_code = 529
    /\ RaisedUpstreamError /\ sb_result.cause = "HTTPError"
    /\ llm_posts = 1

(***************************************************************************)
(* The SERP client.                                                        *)
(***************************************************************************)
SerpCredentialAbsent == Falsy(DATAFORSEO_LOGIN) \/ Falsy(DATAFORSEO_PASSWORD)
SerpConfigurationError == Exc("RuntimeError", "Missing DataForSEO credentials")

\* C5: with either SERP credential absent, an invocation of fetch_live_serp
\* raises the configuration error and issues no HTTP request.
C5_NoCredentialNoRequest ==
    (fetch_calls > 0 /\ SerpCredentialAbsent) =>
        /\ fetch_result = SerpConfigurationError
        /\ serp_posts = 0
C5_Witness ==
    /\ fetch_calls = 1
    /\ ~Falsy(DATAFORSEO_LOGIN) /\ Falsy(DATAFORSEO_PASSWORD)
    /\ fetch_result = SerpConfigurationError
    /\ serp_posts = 0
    /\ pc = "done"

\* C6: with the LLM credential absent, an analyze_title request fails with the
\* LLM configuration error before any network call: no SERP provider call, no
\* LLM call, no prompt.
C6_LlmCredentialCheckedFirst ==
    (IsToolDispatch /\ Falsy(ANTHROPIC_API_KEY)) =>
        /\ serp_posts = 0
        /\ llm_posts = 0
        /\ prompt = Pending

\* The body lacks tasks[0].result[0].
HasResultPath(body) ==
    /\ body.t = "dict" /\ "tasks" \in DOMAIN body.v
    /\ body.v["tasks"].t = "list" /\ Len(body.v["tasks"].v) > 0
    /\ body.v["tasks"].v[1].t = "dict" /\ "result" \in DOMAIN body.v["tasks"].v[1].v
    /\ body.v["tasks"].v[1].v["result"].t = "list"
    /\ Len(body.v["tasks"].v[1].v["result"].v) > 0
SerpAnswered == serp_response.net # "pending"
SerpDeliveredJson ==
    /\ serp_response.net = "ok"
    /\ serp_response.status_code = 200
    /\ serp_response.json.t # "notjson"

\* C8: a success-status answer without tasks[0].result[0] makes fetch_live_serp
\* raise the malformed-response error and no other.
C8_PathAbsentIsMalformed ==
    (SerpAnswered /\ SerpDeliveredJson /\ ~HasResultPath(serp_response.json))
        => fetch_result = Exc("RuntimeError", "Malformed DataForSEO response")

\* C9: an invocation of fetch_live_serp that passes the credential check
\* issues exactly one HTTP call, whatever the outcome; a non-success status
\* raises an error carrying the status and the raw body, and nothing further
\* is called.
C9_OneCallPerInvocation ==
    /\ (fetch_calls > 0 /\ ~SerpCredentialAbsent) => serp_posts = 1
    /\ serp_posts <= fetch_calls /\ fetch_calls <= 1
    /\ (SerpAnswered /\ serp_response.net = "ok" /\ serp_response.status_code # 200)
          => /\ fetch_result =
                   [Exc("RuntimeError", "DataForSEO API error")
                      EXCEPT !.status = serp_response.status_code,
                             !.text = serp_response.text]
             /\ pc = "done"
             /\ suggest_calls = 0 /\ llm_posts = 0
C9_Witness ==
    /\ SerpAnswered
    /\ serp_response.status_code = 401
    /\ fetch_result.t = "exc" /\ fetch_result.status = 401
    /\ serp_posts = 1 /\ pc = "done"

(***************************************************************************)
(* The suggestion engine's prompt.                                         *)
(***************************************************************************)
Min(a, b) == IF a < b THEN a ELSE b
GivenTitles == sb_args.competitor_titles

\* C7: of N competitor titles the prompt embeds the first min(N, 10), in
\* order, the result's top_serp_titles is that prefix, and the caller's list
\* is as it was.
C7_TruncationLaw ==
    /\ sb_pc # "idle" => caller_titles = GivenTitles
    /\ sb_pc \in {"posted", "returned"} =>
          /\ Len(prompt.competitor_titles) = Min(Len(GivenTitles), 10)
          /\ \A i \in 1..Len(prompt.competitor_titles) :
                prompt.competitor_titles[i] = <<"- ", GivenTitles[i]>>
    /\ sb_pc = "returned" =>
          /\ Len(sb_result.v["top_serp_titles"].v) = Min(Len(GivenTitles), 10)
          /\ \A i \in 1..Len(sb_result.v["top_serp_titles"].v) :
                sb_result.v["top_serp_titles"].v[i] = GivenTitles[i]
C7_Witness ==
    /\ sb_pc = "returned"
    /\ Len(GivenTitles) = 11
    /\ Len(prompt.competitor_titles) = 10
    /\ Len(sb_result.v["top_serp_titles"].v) = 10

(***************************************************************************)
(* The SERP normalizer.                                                    *)
(***************************************************************************)
InputItems == px_input.v["result"].v[1].v["items"].v
EveryItemTyped == \A i \in 1..Len(InputItems) : "type" \in DOMAIN InputItems[i]
TitledOrganic ==
    {i \in 1..Len(InputItems) :
        InputItems[i]["type"] = "organic" /\ "title" \in DOMAIN InputItems[i]}

\* C10: extract_serp_titles returns, in item order, the title of exactly the
\* items of type "organic" that have a title field; the other items are
\* skipped without error, and no organic item gives the empty sequence.
C10_OrganicTitlesInOrder ==
    (px_pc = "done" /\ EveryItemTyped) =>
        /\ px_titles.t = "list"
        /\ Len(px_titles.v) = Cardinality(TitledOrganic)
        /\ \A i \in TitledOrganic :
              px_titles.v[Cardinality({j \in TitledOrganic : j <= i})] = InputItems[i]["title"]
C10_Witness ==
    /\ px_pc = "done"
    /\ InputItems = <<[type |-> "organic", title |-> "A"], [type |-> "paid", title |-> "B"],
                      [type |-> "organic"]>>
    /\ px_titles = Arr(<<"A">>)

\* C11: no entry of a list returned by extract_serp_titles is the empty
\* string: an organic item whose title is present but empty contributes none.
C11_NoEmptyTitle ==
    (px_pc = "done" /\ px_titles.t = "list") =>
        \A i \in 1..Len(px_titles.v) : px_titles.v[i] # ""

Organic == {i \in 1..Len(InputItems) : InputItems[i]["type"] = "organic"}
OrganicRank(i) == Cardinality({j \in Organic : j <= i})
InputData == px_input.v["data"].v
RecordsDone == px_records # Pending

\* C12: extract_organic_results returns one record per organic item, in item
\* order, with position = rank_group (0 when absent), title and url the
\* item's (the empty string when absent) and keyword, language and location
\* those of the envelope, the same in every record; an organic item without a
\* title has a record with title "" and no entry among the titles, and there
\* are never more titles than records.
C12_OneRecordPerOrganicItem ==
    (RecordsDone /\ EveryItemTyped) =>
        /\ px_records.t = "list"
        /\ Len(px_records.v) = Cardinality(Organic)
        /\ \A i \in Organic :
              LET r == px_records.v[OrganicRank(i)]
                  item == InputItems[i]
              IN  /\ r.position = IF "rank_group" \in DOMAIN item THEN item["rank_group"] ELSE 0
                  /\ r.title = IF "title" \in DOMAIN item THEN item["title"] ELSE ""
                  /\ r.url = IF "url" \in DOMAIN item THEN item["url"] ELSE ""
                  /\ r.keyword = px_input.v["result"].v[1].v["keyword"]
                  /\ "language_code" \in DOMAIN InputData => r.language = InputData["language_code"]
                  /\ "location_name" \in DOMAIN InputData
                        => r.location_name = InputData["location_name"]
        /\ \A k, l \in 1..Len(px_records.v) :
              /\ px_records.v[k].keyword = px_records.v[l].keyword
              /\ px_records.v[k].language = px_records.v[l].language
              /\ px_records.v[k].location_name = px_records.v[l].location_name
        /\ px_pc = "done" =>
              /\ Len(px_titles.v) <= Len(px_records.v)
              /\ Len(px_titles.v) =
                    Cardinality({i \in Organic : "title" \in DOMAIN InputItems[i]})
C12_Witness ==
    /\ RecordsDone /\ px_pc = "done"
    /\ InputItems = <<[type |-> "organic", title |-> "A", url |-> "https://x.com/1", rank_group |-> 2],
                      [type |-> "paid", title |-> "B"],
                      [type |-> "organic"]>>
    /\ Len(px_records.v) = 2
    /\ px_records.v[1].position = 2
    /\ px_records.v[2].title = "" /\ px_records.v[2].position = 0
    /\ px_titles = Arr(<<"A">>)

(***************************************************************************)
(* The gateways' answers.                                                  *)
(***************************************************************************)
IsUnknownTool == transport \in {"http_tool", "stdio"} /\ tool_name # "analyze_title"
IsServerErrorAnswer(answer) ==
    answer.status \in 500..599 \/ answer.view \in {"service_error", "unexpected_error"}

\* C13: dispatching a tool name other than analyze_title ends, on both
\* transports, in a not-found answer of the gateway, which is neither of the
\* validation kind nor a server error, and no SERP or LLM call is made.
C13_UnknownToolNotFound ==
    (IsUnknownTool /\ pc = "done") =>
        /\ outcome.view # "raised"
        /\ IsExc(outcome.exc)
        /\ ~IsValueError(outcome.exc)
        /\ ~IsServerErrorAnswer(outcome)
        /\ fetch_calls = 0 /\ serp_posts = 0
        /\ suggest_calls = 0 /\ llm_posts = 0

(***************************************************************************)
(* The arguments handed to the SERP client.                                *)
(***************************************************************************)
Supplied(k) == k \in DOMAIN arguments.v /\ arguments.v[k].t # "None"
Expected(k, default) == IF Supplied(k) THEN arguments.v[k] ELSE default

\* C19: location_code, language_code and device reach fetch_live_serp as the
\* caller gave them (0 included) and as the configured default when absent
\* or null; a null never reaches the SERP client.
C19_DefaultsResolved ==
    (IsToolDispatch /\ fetch_calls > 0) =>
        /\ fetch_args.location_code = Expected("location_code", IntV(2840))
        /\ fetch_args.language_code = Expected("language_code", StrV(<<"en">>))
        /\ fetch_args.device = Expected("device", StrV(<<"desktop">>))
        /\ fetch_args.location_code.t # "None"
        /\ fetch_args.language_code.t # "None"
        /\ fetch_args.device.t # "None"

\* An error answer is a payload with a message.
IsErrorPayload(answer) ==
    answer.view \in {"error", "invalid_request", "service_error", "unexpected_error"}

\* C14: at every boundary an error raised by any step is caught and turned
\* into an error payload with a message; none leaves the boundary handler.
C14_NoErrorEscapes ==
    pc = "done" =>
        /\ outcome.view # "raised"
        /\ IsExc(outcome.exc) => IsErrorPayload(outcome)

IsValidationFailure == IsExc(outcome.exc) /\ outcome.exc.cls = "ValidationError"

\* C15: on POST /mcp/tools/{name} and POST /analyze a failure that is neither
\* a validation failure nor an unknown name is answered with a 5xx status
\* and an error message, never with a success or a 4xx status.
C15_FailuresAreServerErrors ==
    (/\ transport \in {"http_tool", "http_analyze"}
     /\ pc = "done"
     /\ IsExc(outcome.exc)
     /\ ~IsValidationFailure
     /\ ~IsUnknownTool)
        => /\ outcome.status \in 500..599
           /\ IsErrorPayload(outcome)

(***************************************************************************)
(* The stdio tool's SERP source.                                           *)
(***************************************************************************)
IsStdioAnalyze == transport = "stdio" /\ tool_name = "analyze_title"
FlagSet ==
    /\ "use_test_data" \in DOMAIN arguments.v
    /\ arguments.v["use_test_data"] = BoolV(TRUE)
QueryGiven == "query" \in DOMAIN arguments.v /\ arguments.v["query"].t = "str"
QueryIsFixtureKeyword ==
    /\ QueryGiven
    /\ Len(arguments.v["query"].v) = 2
    /\ arguments.v["query"].v[1] \in {"sweepstakes", "Sweepstakes"}
    /\ arguments.v["query"].v[2] \in {"casinos", "Casinos"}

\* C16: a stdio analyze_title request with the test-data flag set, or whose
\* query is the fixture keyword in any letter case, reads the local fixture
\* and never calls the SERP client; every other request with a query calls
\* the SERP client exactly once and does not read the fixture.
C16_FixtureOrLive ==
    IsStdioAnalyze =>
        /\ (FlagSet \/ QueryIsFixtureKeyword) =>
              /\ fetch_calls = 0 /\ serp_posts = 0
              /\ pc = "done" => fixture_reads = 1
        /\ (~FlagSet /\ ~QueryIsFixtureKeyword /\ QueryGiven) =>
              /\ fixture_reads = 0
              /\ pc # "received" => fetch_calls = 1
C16_Witness ==
    /\ IsStdioAnalyze /\ pc = "done"
    /\ ~FlagSet
    /\ QueryGiven /\ arguments.v["query"].v = <<"Sweepstakes", "Casinos">>
    /\ fixture_reads = 1 /\ fetch_calls = 0

(***************************************************************************)
(* The pipeline from the SERP data on.                                     *)
(***************************************************************************)
ArgsGiven == ~ArgLacking("query") /\ ~ArgLacking("user_title")
TitlesExtracted == titles.t = "list"
\* The LLM endpoint answers this request's call with a reply that is a JSON
\* object with suggestions, and the key to call it with is set.
LlmSucceeds ==
    /\ ~Falsy(ANTHROPIC_API_KEY)
    /\ HasReplyText
    /\ WholeIsJson(ReplyText) /\ CarriesSuggestions(ReplyText)

\* C17: a stdio analyze_title request with query and user_title whose SERP
\* data was acquired and whose LLM call succeeds returns the narrative
\* report and not an error text.
C17_StdioReturnsReport ==
    (IsStdioAnalyze /\ ArgsGiven /\ TitlesExtracted /\ LlmSucceeds /\ pc = "done")
        => /\ outcome.view = "report"
           /\ ~IsExc(outcome.exc)

WellFormedAnswer ==
    /\ SerpAnswered /\ SerpDeliveredJson
    /\ HasResultPath(serp_response.json)
    /\ {"keyword", "items"} \subseteq DOMAIN serp_response.json.v["tasks"].v[1].v["result"].v[1].v

\* C20: on the live path, after a well-formed success answer of the
\* provider, extract_serp_titles accepts what fetch_live_serp returned and
\* the request goes on to invoke the suggestion engine.
C20_LiveResultAccepted ==
    (IsToolDispatch /\ WellFormedAnswer) =>
        /\ ~IsExc(fetch_result)
        /\ TitlesExtracted
        /\ transport = "http_tool" => suggest_calls = 1

(***************************************************************************)
(* The report's domain statistics.                                         *)
(***************************************************************************)
SlashesOf(url) == {i \in 1..Len(url) : url[i] = "/"}
HasDomainComponent(url) == Cardinality(SlashesOf(url)) >= 2
\* The tokens after the second "/" up to the third, or to the end.
AuthorityOf(url) ==
    LET second == CHOOSE i \in SlashesOf(url) : Cardinality({j \in SlashesOf(url) : j < i}) = 1
        later == {i \in SlashesOf(url) : i > second}
        stop == IF later = {} THEN Len(url) + 1
                ELSE CHOOSE i \in later : \A j \in later : i <= j
    IN  SubSeq(url, second + 1, stop - 1)
\* The tokens after the last "." of a domain.
AfterLastDot(domain) ==
    LET dots == {i \in 1..Len(domain) : domain[i] = "."}
        last == CHOOSE i \in dots : \A j \in dots : j <= i
    IN  SubSeq(domain, last + 1, Len(domain))
DomainDone == dm_result # Pending

\* C18: the domain of an organic result is the segment at index 2 of its
\* url split by "/" and the TLD the last piece of the domain split by ".";
\* for a url that is empty or has fewer than three segments both degrade to
\* a placeholder and the report is still produced.
C18_DomainDerivation ==
    DomainDone =>
        /\ ~IsExc(dm_result)
        /\ HasDomainComponent(dm_url) =>
              /\ dm_result.domain = AuthorityOf(dm_url)
              /\ HasDot(AuthorityOf(dm_url)) =>
                    dm_result.tlds = <<AfterLastDot(AuthorityOf(dm_url))>>
        /\ ~HasDomainComponent(dm_url) =>
              /\ dm_result.domain = <<"N/A">>
              /\ dm_result.tlds = <<>>

(***************************************************************************)
(* The order of the pipeline's steps.                                      *)
(***************************************************************************)
IsPipelineRequest == transport \in {"http_tool", "stdio", "http_analyze"}
SerpStepFailed ==
    /\ fetch_calls = 1
    /\ \/ SerpCredentialAbsent
       \/ /\ SerpAnswered
          /\ \/ serp_response.net # "ok"
             \/ serp_response.status_code # 200
             \/ serp_response.json.t = "notjson"
             \/ ~HasResultPath(serp_response.json)
SerpStepSucceeded ==
    fetch_calls = 1 => (SerpAnswered /\ fetch_result # Pending /\ ~IsExc(fetch_result))

\* C21: within one request at most one SERP provider call and at most one
\* LLM call are issued, the suggestion engine and its LLM call come only
\* after the SERP step and the title extraction succeeded, and once a step
\* has failed no later step runs.
C21_SequentialNoRetry ==
    IsPipelineRequest =>
        /\ fetch_calls <= 1 /\ serp_posts <= 1
        /\ suggest_calls <= 1 /\ llm_posts <= 1
        /\ llm_posts <= suggest_calls
        /\ suggest_calls = 1 => (SerpStepSucceeded /\ TitlesExtracted)
        /\ pc = "serp_wait" => (suggest_calls = 0 /\ ~TitlesExtracted)
        /\ SerpStepFailed =>
              /\ pc = "done" /\ IsExc(outcome.exc)
              /\ ~TitlesExtracted
              /\ suggest_calls = 0 /\ llm_posts = 0
        /\ (pc = "done" /\ ~TitlesExtracted) => (suggest_calls = 0 /\ llm_posts = 0)
        /\ sb_pc = "raised" => (pc = "done" /\ IsExc(outcome.exc))
C21_Witness ==
    /\ IsToolDispatch /\ pc = "done"
    /\ serp_posts = 1
    /\ SerpAnswered /\ serp_response.status_code = 500
    /\ SerpStepFailed
    /\ suggest_calls = 0 /\ llm_posts = 0

====
